---------------------------- MODULE Spec2Model ----------------------------
(***************************************************************************)
(* Verification model of the irrigation controller:                        *)
(*   fuzzy_logic.py  FuzzyWateringSystem (membership functions, rule base, *)
(*                   Mamdani inference with centroid defuzzification,      *)
(*                   decision formatting)                                  *)
(*   app.py          on_message, proses_data, the recommendation handler   *)
(*                   and the manual activation handler                     *)
(*                                                                         *)
(* Numbers.  Sensor readings are integers.  A membership degree d in [0,1] *)
(* is the integer d * Deg.  Areas and moments of the aggregate output      *)
(* curve are exact integers held as multi-limb naturals (TLC's integers    *)
(* are 32 bits wide), so that the centroid is rounded exactly.             *)
(***************************************************************************)
EXTENDS Integers, Sequences, FiniteSets, TLC

(***************************************************************************)
(* Multi-limb naturals: little-endian tuples of NLimbs digits, base Base.  *)
(***************************************************************************)
Base == 10000
NLimbs == 8

Min2(x, y) == IF x <= y THEN x ELSE y
Max2(x, y) == IF x >= y THEN x ELSE y

\* Propagate carries (or borrows) through the raw limbs, lowest first.
BCarry(raw) ==
    LET v1 == raw[1]
        v2 == raw[2] + (v1 \div Base)
        v3 == raw[3] + (v2 \div Base)
        v4 == raw[4] + (v3 \div Base)
        v5 == raw[5] + (v4 \div Base)
        v6 == raw[6] + (v5 \div Base)
        v7 == raw[7] + (v6 \div Base)
        v8 == raw[8] + (v7 \div Base)
    IN  << v1 % Base, v2 % Base, v3 % Base, v4 % Base,
           v5 % Base, v6 % Base, v7 % Base, v8 % Base >>

BInt(n) == << n % Base, (n \div Base) % Base, n \div (Base * Base), 0, 0, 0, 0, 0 >>

\* a + b + c
BAdd3(a, b, c) == BCarry([i \in 1..NLimbs |-> a[i] + b[i] + c[i]])

\* a - b for a >= b
BSub(a, b) == BCarry([i \in 1..NLimbs |-> a[i] - b[i]])

\* (a1 + a2 + a3 + a4 + a5) - (b1 + b2 + b3), which must not be negative
BSum5Minus3(a1, a2, a3, a4, a5, b1, b2, b3) ==
    BCarry([i \in 1..NLimbs |->
              a1[i] + a2[i] + a3[i] + a4[i] + a5[i] - b1[i] - b2[i] - b3[i]])

\* Limb k of a, 0 below the first limb.
BAt(a, k) == IF k < 1 THEN 0 ELSE a[k]

\* a * n for an integer 0 <= n < 2^31, taken as its three base-Base digits
BMulInt(a, n) ==
    BCarry([k \in 1..NLimbs |->
              a[k] * (n % Base) + BAt(a, k - 1) * ((n \div Base) % Base)
                                + BAt(a, k - 2) * (n \div (Base * Base))])

\* -1, 0, 1 as a < b, a = b, a > b: decided by the highest limb that differs
\* The largest element of a non-empty set of integers.
MaxOf(S) == CHOOSE i \in S : \A j \in S : j <= i

BCmpAt(a, b, diff) ==
    IF diff = {} THEN 0
    ELSE IF a[MaxOf(diff)] < b[MaxOf(diff)] THEN -1 ELSE 1

BCmp(a, b) == BCmpAt(a, b, {i \in 1..NLimbs : a[i] /= b[i]})

BMul3(x, y, z) == BMulInt(BMulInt(BInt(x), y), z)

\* One base-16 digit of a quotient: prev plus the largest c in 0..15
\* with (prev + c * unit) * d <= m.
BDivStep(prev, unit, m, d) ==
    prev + unit * MaxOf({c \in 0..15 : BCmp(BMulInt(d, prev + c * unit), m) <= 0})

\* the largest q < 16^5 with q * d <= m, one base-16 digit at a time
\* (16^5 exceeds the largest point of the output universe)
BDivFloor(m, d) ==
    IF BCmp(m, d) < 0 THEN 0
    ELSE
    BDivStep(BDivStep(BDivStep(BDivStep(BDivStep(0, 65536, m, d), 4096, m, d),
                               256, m, d), 16, m, d), 1, m, d)

(***************************************************************************)
(* fuzzy_logic.py: linguistic variables.                                   *)
(***************************************************************************)
\* Membership degrees are integers out of Deg: every slope of the input
\* membership functions, and every height at which two output terms cross,
\* is a whole number of 1/Deg.
Deg == 840

\* Python's None (an input or output slot of the simulator not yet set).
None == -1000000

\* skfuzzy.trimf at one point x of the universe, vertices (a, b, c).
trimf(x, a, b, c) ==
    IF x = b THEN Deg
    ELSE IF a /= b /\ a < x /\ x < b THEN ((x - a) * Deg) \div (b - a)
    ELSE IF b /= c /\ b < x /\ x < c THEN ((c - x) * Deg) \div (c - b)
    ELSE 0

\* The universes of the three antecedents and of the consequent.
soil_universe == [lo |-> 0, hi |-> 100]
air_universe == [lo |-> 0, hi |-> 100]
temp_universe == [lo |-> 0, hi |-> 40]
watering_universe == [lo |-> 0, hi |-> 120000, step |-> 1]

soil(x) == [very_dry |-> trimf(x, 0, 0, 30),
            dry      |-> trimf(x, 20, 35, 50),
            moist    |-> trimf(x, 40, 55, 70),
            wet      |-> trimf(x, 60, 100, 100)]

air(x) == [low    |-> trimf(x, 0, 0, 40),
           medium |-> trimf(x, 30, 50, 70),
           high   |-> trimf(x, 60, 100, 100)]

\* temp with the peak of cool at the wrong end, (0, 20, 20).
temp_CoolRising(x) == [cool |-> trimf(x, 0, 20, 20),
                       warm |-> trimf(x, 15, 25, 30),
                       hot  |-> trimf(x, 25, 40, 40)]

temp(x) == [cool |-> trimf(x, 0, 0, 20),
            warm |-> trimf(x, 15, 25, 30),
            hot  |-> trimf(x, 25, 40, 40)]

\* Output terms: the singleton no_water and four triangles, left to right.
no_water == [a |-> 0, b |-> 0, c |-> 0]
watering == << [name |-> "very_short", a |-> 0,     b |-> 15000,  c |-> 30000],
               [name |-> "short",      a |-> 20000, b |-> 40000,  c |-> 60000],
               [name |-> "medium",     a |-> 50000, b |-> 70000,  c |-> 90000],
               [name |-> "long",       a |-> 80000, b |-> 120000, c |-> 120000] >>

(***************************************************************************)
(* fuzzy_logic.py: rule base.  `&` is min; rules with the same consequent  *)
(* accumulate by max.  rules(s, a, t) is the cut of every output term.     *)
(***************************************************************************)
\* fire with | for & in the rule dry & high -> medium.
fire_Or(so, ai, te) ==
    [no_water   |-> so.wet,
     very_short |-> te.cool,
     short      |-> Max2(Min2(so.moist, te.warm), Min2(ai.high, te.warm)),
     medium     |-> Max2(Max2(so.dry, ai.high), Min2(ai.low, te.hot)),
     long       |-> Max2(so.very_dry, Min2(so.dry, te.hot))]

\* The cuts, from the fuzzified inputs so, ai, te.
fire(so, ai, te) ==
    [no_water   |-> so.wet,
     very_short |-> te.cool,
     short      |-> Max2(Min2(so.moist, te.warm), Min2(ai.high, te.warm)),
     medium     |-> Max2(Min2(so.dry, ai.high), Min2(ai.low, te.hot)),
     long       |-> Max2(so.very_dry, Min2(so.dry, te.hot))]

rules(s, a, t) == fire(soil(s), air(a), temp(t))

(***************************************************************************)
(* Defuzzification.  A tent is min(rise, fall, cut): rise climbs from 0 at *)
(* p with slope 1/wl, fall drops to 0 at q with slope 1/wr.  A clipped     *)
(* triangular term, the overlap of two neighbouring clipped terms and the  *)
(* sampled singleton are all tents.                                        *)
(***************************************************************************)
\* The height at which a tent is actually cut: the cut, or its peak if lower.
TentCut(tn, hn) ==
    Min2(hn, (Deg * (tn.q - tn.p)) \div (tn.wl + tn.wr))

\* area * 2 * Deg^2 of the tent cut at height h <= its peak:
\* h * (2 * (q - p) - (wl + wr) * h) / 2
TentArea2At(tn, h) ==
    BMulInt(BInt(h), 2 * Deg * (tn.q - tn.p) - (tn.wl + tn.wr) * h)

TentArea2(tn, hn) == TentArea2At(tn, TentCut(tn, hn))

\* (moment about 0) * 6 * Deg^3 of the tent cut at height h <= its peak: the
\* rising triangle, the flat top and the falling triangle.
TentMoment6At(tn, h) ==
    BAdd3(BMul3(tn.wl * h, h, 3 * Deg * tn.p + 2 * tn.wl * h),
          BMul3(3 * h, Deg * (tn.q - tn.p) - (tn.wl + tn.wr) * h,
                Deg * (tn.p + tn.q) + (tn.wl - tn.wr) * h),
          BMul3(tn.wr * h, h, 3 * Deg * tn.q - 2 * tn.wr * h))

TentMoment6(tn, hn) == TentMoment6At(tn, TentCut(tn, hn))

TermTent(tm) == [p |-> tm.a, q |-> tm.c, wl |-> tm.b - tm.a, wr |-> tm.c - tm.b]

\* The singleton trimf(universe, [0, 0, 0]) is 1 at the first grid point and
\* 0 at every other one; between grid points the curve is interpolated.
SingletonTent ==
    [p |-> no_water.a, q |-> no_water.a + watering_universe.step,
     wl |-> 0, wr |-> watering_universe.step]

\* The overlap of term i's falling edge with term i+1's rising edge.
OverlapTent(i) ==
    [p |-> watering[i + 1].a, q |-> watering[i].c,
     wl |-> watering[i + 1].b - watering[i + 1].a,
     wr |-> watering[i].c - watering[i].b]

\* The cut of the overlap of term i and term i+1: the lower of the two cuts.
OverlapCut(cut, i) == Min2(cut[watering[i].name], cut[watering[i + 1].name])

\* The aggregate curve is the pointwise max of the clipped terms: the sum of
\* the singleton and the four triangles minus the overlaps of neighbours.
AggregateArea2(cut) ==
    BSum5Minus3(TentArea2(SingletonTent, cut.no_water),
                TentArea2(TermTent(watering[1]), cut[watering[1].name]),
                TentArea2(TermTent(watering[2]), cut[watering[2].name]),
                TentArea2(TermTent(watering[3]), cut[watering[3].name]),
                TentArea2(TermTent(watering[4]), cut[watering[4].name]),
                TentArea2(OverlapTent(1), OverlapCut(cut, 1)),
                TentArea2(OverlapTent(2), OverlapCut(cut, 2)),
                TentArea2(OverlapTent(3), OverlapCut(cut, 3)))

AggregateMoment6(cut) ==
    BSum5Minus3(TentMoment6(SingletonTent, cut.no_water),
                TentMoment6(TermTent(watering[1]), cut[watering[1].name]),
                TentMoment6(TermTent(watering[2]), cut[watering[2].name]),
                TentMoment6(TermTent(watering[3]), cut[watering[3].name]),
                TentMoment6(TermTent(watering[4]), cut[watering[4].name]),
                TentMoment6(OverlapTent(1), OverlapCut(cut, 1)),
                TentMoment6(OverlapTent(2), OverlapCut(cut, 2)),
                TentMoment6(OverlapTent(3), OverlapCut(cut, 3)))

\* int(round(m / d)): Python rounds a tie to the even neighbour.
RoundTie(q, c) ==
    IF c < 0 THEN q
    ELSE IF c > 0 THEN q + 1
    ELSE IF q % 2 = 0 THEN q ELSE q + 1

\* q is floor(m / d); twice the remainder is compared with d.
RoundFrom(q, m, d) == RoundTie(q, BCmp(BMulInt(BSub(m, BMulInt(d, q)), 2), d))

RoundHalfEven(m, d) == RoundFrom(BDivFloor(m, d), m, d)

\* simulator.compute() followed by int(round(output)): the centroid of the
\* aggregate curve, or "ValueError" when no rule fires (total area zero).
Centroid(a2, m6) ==
    IF a2 = BInt(0) THEN [raised |-> "ValueError"]
    ELSE [value |-> RoundHalfEven(m6, BMulInt(a2, 3 * Deg))]

Defuzz(cut) == Centroid(AggregateArea2(cut), AggregateMoment6(cut))


(***************************************************************************)
(* The readings the model draws from, and the defuzzified outputs of the   *)
(* in-range ones (a table, so that each is computed once).                 *)
(***************************************************************************)
InRange(v, u) == u.lo <= v /\ v <= u.hi

\* Grid readings, the soil line at mid-range air and temperature, and
\* readings below and above each universe.
SoilReadings == {5 * i : i \in 0..20} \cup {-5, 105}
AirReadings == {10 * i : i \in 0..10} \cup {-5, 105}
TempReadings == {5 * i : i \in 0..8} \cup {-5, 45}
SoilLine == {<<s, 50, 20>> : s \in 0..100}
Readings == (SoilReadings \X AirReadings \X TempReadings) \cup SoilLine
ValidReadings ==
    {r \in Readings : /\ InRange(r[1], soil_universe)
                      /\ InRange(r[2], air_universe)
                      /\ InRange(r[3], temp_universe)}

\* compute() on every valid reading, as an explicit table (@@ builds it once).
OutputTable ==
    [r \in ValidReadings |-> Defuzz(rules(r[1], r[2], r[3]))] @@ << >>

(***************************************************************************)
(* fuzzy_logic.py: the shared ControlSystemSimulation and                  *)
(* calculate_watering.                                                     *)
(***************************************************************************)
\* setup_fuzzy_system: the simulator right after construction.
NewSimulator ==
    [input  |-> [soil_moisture |-> None, air_humidity |-> None, temperature |-> None],
     output |-> None]

Universe(key) ==
    IF key = "soil_moisture" THEN soil_universe
    ELSE IF key = "air_humidity" THEN air_universe
    ELSE temp_universe

\* simulator.input[key] = value.  The library either clips the value to the
\* universe (clip = TRUE) or raises IndexError for a value outside it.
SetInput(sim, clip, key, value) ==
    IF clip
    THEN [raised |-> "",
          sim |-> [sim EXCEPT !.input[key] =
                      Max2(Min2(value, Universe(key).hi), Universe(key).lo)]]
    ELSE IF InRange(value, Universe(key))
    THEN [raised |-> "", sim |-> [sim EXCEPT !.input[key] = value]]
    ELSE [raised |-> "IndexError", sim |-> sim]

\* simulator.compute(): fuzzify the stored inputs, fire the rules, defuzzify
\* (out), and store the crisp output; or raise and store nothing.
ComputeWith(sim, out) ==
    IF "raised" \in DOMAIN out
    THEN [raised |-> out.raised, sim |-> sim]
    ELSE [raised |-> "", sim |-> [sim EXCEPT !.output = out.value]]

Compute(sim) ==
    ComputeWith(sim, OutputTable[<<sim.input.soil_moisture, sim.input.air_humidity,
                                   sim.input.temperature>>])

\* _get_status with < for <= at the first threshold.
_get_status_Exclusive(time_ms) ==
    IF time_ms = 0 THEN "No watering needed (soil is wet)"
    ELSE IF time_ms < 15000 THEN "Very short watering (cooling)"
    ELSE IF time_ms <= 40000 THEN "Short watering"
    ELSE IF time_ms <= 70000 THEN "Medium watering"
    ELSE "Long watering (very dry soil)"

_get_status(time_ms) ==
    IF time_ms = 0 THEN "No watering needed (soil is wet)"
    ELSE IF time_ms <= 15000 THEN "Very short watering (cooling)"
    ELSE IF time_ms <= 40000 THEN "Short watering"
    ELSE IF time_ms <= 70000 THEN "Medium watering"
    ELSE "Long watering (very dry soil)"

\* The Decision built from duration_ms.
Decision(duration_ms) ==
    [duration_ms      |-> duration_ms,
     duration_seconds |-> duration_ms \div 1000,
     status           |-> _get_status(duration_ms)]

InvalidInput == [error |-> "Invalid input range"]

\* TryResult with the output read outside the try: after a failed compute()
\* the output of an earlier call is returned.
TryResult_StaleOutput(c) ==
    IF c.raised /= "" /\ c.sim.output = None
    THEN [sim |-> c.sim, result |-> InvalidInput]
    ELSE [sim |-> c.sim, result |-> Decision(c.sim.output)]

\* The rest of the try block after compute() (c): read the output and build
\* the Decision; any exception becomes the error marker.
TryResult(c) ==
    IF c.raised /= "" THEN [sim |-> c.sim, result |-> InvalidInput]
    ELSE [sim |-> c.sim, result |-> Decision(c.sim.output)]

TryCompute(sim) == TryResult(Compute(sim))

\* The three input assignments (s1, s2, s3) stand before the try: an
\* exception they raise leaves the function ([raised |-> ...]).
AfterInputs(s1, s2, s3) ==
    IF s1.raised /= "" THEN [sim |-> s1.sim, result |-> [raised |-> s1.raised]]
    ELSE IF s2.raised /= "" THEN [sim |-> s2.sim, result |-> [raised |-> s2.raised]]
    ELSE IF s3.raised /= "" THEN [sim |-> s3.sim, result |-> [raised |-> s3.raised]]
    ELSE TryCompute(s3.sim)

SetAir(s1, clip, air_v) ==
    IF s1.raised /= "" THEN s1 ELSE SetInput(s1.sim, clip, "air_humidity", air_v)

SetTemp(s2, clip, temp_v) ==
    IF s2.raised /= "" THEN s2 ELSE SetInput(s2.sim, clip, "temperature", temp_v)

Inputs2(s1, clip, air_v, temp_v) ==
    AfterInputs(s1, SetAir(s1, clip, air_v), SetTemp(SetAir(s1, clip, air_v), clip, temp_v))

\* calculate_watering(soil, air, temp) run without interruption.
calculate_watering(sim, clip, soil_v, air_v, temp_v) ==
    Inputs2(SetInput(sim, clip, "soil_moisture", soil_v), clip, air_v, temp_v)

IsDecision(res) == "duration_ms" \in DOMAIN res

(***************************************************************************)
(* State.                                                                  *)
(***************************************************************************)
VARIABLES
    clip_to_bounds, \* how the installed library treats an out-of-range input
    simulator,      \* fuzzy_system.simulator, shared by every caller
    calls,          \* the calculate_watering calls made so far: args and result
    formatted,      \* the last Decision built directly from a duration
    db,             \* table sensor_data, in insertion (id) order
    now,            \* wall clock, in ticks of 1 / TicksPerSecond seconds
    last,           \* what the last handler run read, computed and published
    pc,             \* per thread: position inside calculate_watering
    targs,          \* per thread: the arguments of its call
    tret            \* per thread: what its call returned

vars == << clip_to_bounds, simulator, calls, formatted, db, now, last, pc, targs, tret >>

NoDecision == [none |-> TRUE]
NoRun == [op |-> "none"]
NoArgs == << >>

\* The callers of calculate_watering that may run at the same time: the
\* scheduler's job thread and a request thread.
Threads == {1, 2}

appVars == << db, now, last >>
threadVars == << pc, targs, tret >>

\* The state after module import: fuzzy_system built, nothing stored or run.
InitCommon ==
    /\ clip_to_bounds \in BOOLEAN
    /\ simulator = NewSimulator
    /\ calls = << >>
    /\ formatted = NoDecision
    /\ db = << >>
    /\ now = 0
    /\ last = NoRun
    /\ pc = [t \in Threads |-> "idle"]
    /\ targs = [t \in Threads |-> NoArgs]
    /\ tret = [t \in Threads |-> NoDecision]

(***************************************************************************)
(* Spec: one call of calculate_watering on the fresh engine, for every     *)
(* reading; and the Decision built from a duration.                        *)
(***************************************************************************)
\* The most calls made on one engine in a behaviour of SpecSeq.
MaxCalls == 3

\* One whole call of calculate_watering on the shared simulator.
CallDone(r, c) ==
    /\ simulator' = c.sim
    /\ calls' = Append(calls, [args |-> r, result |-> c.result])
    /\ UNCHANGED << clip_to_bounds, formatted, appVars, threadVars >>

Call(r) == CallDone(r, calculate_watering(simulator, clip_to_bounds, r[1], r[2], r[3]))

\* Durations around every status threshold and across the output universe.
Durations ==
    {0, 1, 999, 1000, 1001, 14999, 15000, 15001, 39999, 40000, 40001,
     69999, 70000, 70001, 119999, 120000, 120001, 200000}
        \cup {2500 * i : i \in 0..48}

Format(d) ==
    /\ formatted' = Decision(d)
    /\ UNCHANGED << clip_to_bounds, simulator, calls, appVars, threadVars >>

\* A behaviour of Spec applies one operation to the state after construction.
Fresh == calls = << >> /\ formatted = NoDecision

CallOnce == Fresh /\ \E r \in Readings : Call(r)

FormatOnce == Fresh /\ \E d \in Durations : Format(d)

Init == InitCommon

Next == CallOnce \/ FormatOnce

Spec == Init /\ [][Next]_vars

(***************************************************************************)
(* SpecLine: two calls at air = 50, temperature = 20, soil in 5..90.       *)
(***************************************************************************)
LineInputs == {<<s, 50, 20>> : s \in 5..90}

LineCall == Len(calls) < 2 /\ \E r \in LineInputs : Call(r)

NextLine == LineCall

SpecLine == Init /\ [][NextLine]_vars

(***************************************************************************)
(* SpecSeq: up to MaxCalls calls, one after the other, on one engine.      *)
(***************************************************************************)
\* Inputs of the sequential calls: valid ones of each outcome, one for which
\* compute() raises, and out-of-range ones for each input.
SeqInputs ==
    {<<100, 0, 0>>, <<0, 100, 40>>, <<50, 50, 20>>, <<100, 50, 20>>,
     <<30, 50, 20>>, <<105, 50, 20>>, <<50, -5, 20>>, <<50, 50, 45>>}

SeqCall == Len(calls) < MaxCalls /\ \E r \in SeqInputs : Call(r)

NextSeq == SeqCall

SpecSeq == Init /\ [][NextSeq]_vars
(***************************************************************************)
(* app.py: the MQTT handler, the scheduled job and the HTTP handlers, run  *)
(* one at a time on the one fuzzy_system and the one table sensor_data.    *)
(***************************************************************************)
MQTT_TOPIC_SENSOR == "esp32/sensor_data"
MQTT_TOPIC_CONTROL == "esp32/watering_control"

\* Clock ticks per second of the timestamp format "%Y-%m-%d %H:%M:%S".
TicksPerSecond == 2
\* The last tick of the clock, and the most rows stored, in a behaviour.
MaxNow == 3
MaxRows == 2

\* float(tok) and int(tok) on the fields of a payload; None stands for the
\* ValueError they raise.  int() takes no decimal point.
float(tok) ==
    CASE tok \in {"0", "0.0"} -> 0
      [] tok \in {"20", "20.0"} -> 20
      [] tok \in {"40", "40.0"} -> 40
      [] tok \in {"50", "50.0"} -> 50
      [] tok \in {"100", "100.0"} -> 100
      [] tok \in {"105", "105.0"} -> 105
      [] OTHER -> None

int(tok) ==
    CASE tok = "0" -> 0
      [] tok = "30" -> 30
      [] tok = "50" -> 50
      [] tok = "100" -> 100
      [] tok = "105" -> 105
      [] OTHER -> None

\* Payloads as msg.payload.decode().split(',') returns them: temperature,
\* humidity, soil moisture.
GoodPayloads ==
    {<<"40", "100", "0">>, <<"0.0", "0", "100">>, <<"20.0", "50.0", "50">>,
     <<"20", "50", "100">>, <<"20", "50", "30">>, <<"20", "50", "105">>}

BadPayloads ==
    {<<"20", "50">>, <<"20", "50", "50", "1">>, <<"abc", "50", "50">>,
     <<"20", "50", "50.0">>, <<"">>}

Messages ==
    {[topic |-> MQTT_TOPIC_SENSOR, payload |-> f] : f \in GoodPayloads \cup BadPayloads}
        \cup {[topic |-> "esp32/other", payload |-> <<"20", "50", "50">>]}

\* The message passes the topic test, unpacks into three names and converts.
Accepted(msg) ==
    /\ msg.topic = MQTT_TOPIC_SENSOR
    /\ Len(msg.payload) = 3
    /\ float(msg.payload[1]) /= None
    /\ float(msg.payload[2]) /= None
    /\ int(msg.payload[3]) /= None

\* datetime.now().strftime(...): the clock cut to whole seconds.
Timestamp(tick) == tick \div TicksPerSecond

RowOf(msg, tick) ==
    [timestamp     |-> Timestamp(tick),
     temperature   |-> float(msg.payload[1]),
     humidity      |-> float(msg.payload[2]),
     soil_moisture |-> int(msg.payload[3])]

\* on_message: insert the row, or log the error and store nothing.
on_message(msg) ==
    /\ Len(db) < MaxRows
    /\ db' = IF Accepted(msg) THEN Append(db, RowOf(msg, now)) ELSE db
    /\ last' = [op |-> "on_message", msg |-> msg, before |-> Len(db)]
    /\ UNCHANGED << clip_to_bounds, simulator, calls, formatted, now, threadVars >>

\* Time passes.
Tick ==
    /\ now < MaxNow
    /\ now' = now + 1
    /\ UNCHANGED << clip_to_bounds, simulator, calls, formatted, db, last, threadVars >>

\* SELECT ... ORDER BY timestamp DESC LIMIT 1: a row with the greatest
\* timestamp; the statement fixes no order among rows of equal timestamp.
OrderByTimestampDescLimit1 ==
    {i \in DOMAIN db : \A j \in DOMAIN db : db[j].timestamp <= db[i].timestamp}

\* f"ON,{duration}" on the control topic.
PumpCommand(duration) ==
    [topic |-> MQTT_TOPIC_CONTROL, payload |-> "ON," \o ToString(duration)]

\* Published with >= for > in the test.
Published_NonNegative(result) ==
    IF "duration_ms" \in DOMAIN result /\ result.duration_ms >= 0
    THEN << PumpCommand(result.duration_ms) >>
    ELSE << >>

\* result.get('duration_ms', 0) > 0, and the publish it guards.
Published(result) ==
    IF "duration_ms" \in DOMAIN result /\ result.duration_ms > 0
    THEN << PumpCommand(result.duration_ms) >>
    ELSE << >>

\* What a handler does with the outcome of calculate_watering: an exception
\* goes to the handler's except, a result to the publish test.
SentAfter(core) == IF "raised" \in DOMAIN core THEN << >> ELSE Published(core)

NoData(opname) ==
    /\ db = << >>
    /\ last' = [op |-> opname, seq |-> 0, row |-> 0, core |-> NoDecision,
                sent |-> << >>,
                code |-> IF opname = "proses_data" THEN 0 ELSE 404]
    /\ UNCHANGED << clip_to_bounds, simulator, calls, formatted, db, now, threadVars >>

Evaluated(opname, i, c) ==
    /\ simulator' = c.sim
    /\ last' = [op |-> opname, seq |-> Len(db), row |-> i, core |-> c.result,
                sent |-> SentAfter(c.result),
                code |-> IF opname = "proses_data" THEN 0
                         ELSE IF "raised" \in DOMAIN c.result THEN 500 ELSE 200]
    /\ UNCHANGED << clip_to_bounds, calls, formatted, db, now, threadVars >>

Evaluate(opname, i) ==
    Evaluated(opname, i,
              calculate_watering(simulator, clip_to_bounds, db[i].soil_moisture,
                                 db[i].humidity, db[i].temperature))

\* proses_data, the scheduled job.
proses_data ==
    \/ NoData("proses_data")
    \/ \E i \in OrderByTimestampDescLimit1 : Evaluate("proses_data", i)

\* GET /api/current-with-recommendation.
get_current_with_recommendation ==
    \/ NoData("recommendation")
    \/ \E i \in OrderByTimestampDescLimit1 : Evaluate("recommendation", i)

\* request.json.get('duration', 30000) of the manual requests; None: no key.
ManualDurations == {0 - 1000, 0, 5000, None}

\* POST /api/water/activate.
Activated(duration) ==
    /\ last' = [op |-> "activate_water",
                sent |-> IF duration <= 0 THEN << >> ELSE << PumpCommand(duration) >>,
                code |-> IF duration <= 0 THEN 400 ELSE 200]
    /\ UNCHANGED << clip_to_bounds, simulator, calls, formatted, db, now, threadVars >>

activate_water == \E d \in ManualDurations : Activated(IF d = None THEN 30000 ELSE d)

NextApp ==
    \/ \E msg \in Messages : on_message(msg)
    \/ Tick
    \/ proses_data
    \/ get_current_with_recommendation
    \/ activate_water

SpecApp == Init /\ [][NextApp]_vars

(***************************************************************************)
(* SpecConc: the threads run calculate_watering on the one simulator, a    *)
(* statement at a time.                                                    *)
(***************************************************************************)
\* Valid inputs of the concurrent calls.
ConcInputs == {<<0, 100, 40>>, <<100, 0, 0>>, <<50, 50, 20>>, <<100, 50, 20>>}

\* Thread t enters calculate_watering(r[1], r[2], r[3]), with inputs no other
\* call has.
Start(t, r) ==
    /\ pc[t] = "idle"
    /\ \A u \in Threads : targs[u] /= r
    /\ targs' = [targs EXCEPT ![t] = r]
    /\ pc' = [pc EXCEPT ![t] = "set_soil"]
    /\ UNCHANGED << clip_to_bounds, simulator, calls, formatted, appVars, tret >>

\* One input assignment of thread t, with outcome s, then on to pc value nxt.
Assigned(t, s, nxt) ==
    /\ simulator' = s.sim
    /\ pc' = [pc EXCEPT ![t] = IF s.raised /= "" THEN "done" ELSE nxt]
    /\ tret' = [tret EXCEPT ![t] = IF s.raised /= "" THEN [raised |-> s.raised] ELSE @]
    /\ UNCHANGED << clip_to_bounds, calls, formatted, appVars, targs >>

SetSoil(t) ==
    /\ pc[t] = "set_soil"
    /\ Assigned(t, SetInput(simulator, clip_to_bounds, "soil_moisture", targs[t][1]), "set_air")

SetAirHumidity(t) ==
    /\ pc[t] = "set_air"
    /\ Assigned(t, SetInput(simulator, clip_to_bounds, "air_humidity", targs[t][2]), "set_temp")

SetTemperature(t) ==
    /\ pc[t] = "set_temp"
    /\ Assigned(t, SetInput(simulator, clip_to_bounds, "temperature", targs[t][3]), "compute")

\* self.simulator.compute() of thread t, with outcome c.
Computed(t, c) ==
    /\ simulator' = c.sim
    /\ pc' = [pc EXCEPT ![t] = IF c.raised /= "" THEN "done" ELSE "read"]
    /\ tret' = [tret EXCEPT ![t] = IF c.raised /= "" THEN InvalidInput ELSE @]
    /\ UNCHANGED << clip_to_bounds, calls, formatted, appVars, targs >>

ComputeStep(t) ==
    /\ pc[t] = "compute"
    /\ Computed(t, Compute(simulator))

\* Thread t reads self.simulator.output['watering_time'] and returns.
ReadOutput(t) ==
    /\ pc[t] = "read"
    /\ pc' = [pc EXCEPT ![t] = "done"]
    /\ tret' = [tret EXCEPT ![t] = Decision(simulator.output)]
    /\ UNCHANGED << clip_to_bounds, simulator, calls, formatted, appVars, targs >>

NextConc ==
    \E t \in Threads :
        \/ \E r \in ConcInputs : Start(t, r)
        \/ SetSoil(t)
        \/ SetAirHumidity(t)
        \/ SetTemperature(t)
        \/ ComputeStep(t)
        \/ ReadOutput(t)

SpecConc == Init /\ [][NextConc]_vars

(***************************************************************************)
(* The claims.                                                             *)
(***************************************************************************)
InDomain(r) ==
    /\ InRange(r[1], soil_universe)
    /\ InRange(r[2], air_universe)
    /\ InRange(r[3], temp_universe)

\* C1: every call with soil in [0,100], air in [0,100] and temperature in
\* [0,40] returns a Decision with 0 <= duration_ms <= 120000.
C1_ValidInputsGiveDecision ==
    \A i \in DOMAIN calls :
        InDomain(calls[i].args) =>
            /\ IsDecision(calls[i].result)
            /\ calls[i].result.duration_ms >= 0
            /\ calls[i].result.duration_ms <= 120000

\* What the call with inputs r returns when made alone on a new engine.
Alone(r) == calculate_watering(NewSimulator, clip_to_bounds, r[1], r[2], r[3]).result

\* C2: every concurrent call returns what the same call returns when made
\* alone.
C2_ConcurrentCallsIsolated ==
    \A t \in Threads : pc[t] = "done" => tret[t] = Alone(targs[t])

\* C3: a call with an input outside its range returns the error marker: no
\* Decision, no exception leaving the call.
C3_OutOfRangeGivesInvalidInput ==
    \A i \in DOMAIN calls :
        ~InDomain(calls[i].args) => calls[i].result = InvalidInput

IsFailure(res) == ~IsDecision(res)

\* C4: in a sequence of calls on one engine, calls with the same inputs
\* return the same result, which is the result of that call on a new
\* engine, whatever calls (failed ones too) were made before.
C4_ResultDependsOnInputsOnly ==
    \A i \in DOMAIN calls :
        /\ calls[i].result = Alone(calls[i].args)
        /\ \A j \in DOMAIN calls :
               calls[i].args = calls[j].args => calls[i].result = calls[j].result

\* C4 witness: a call repeated after a call that failed.
C4_RepeatedAfterFailure ==
    /\ Len(calls) = 3
    /\ calls[1].args = calls[3].args
    /\ IsDecision(calls[1].result)
    /\ IsFailure(calls[2].result)

\* C5 as stated: the call (100, 0, 0) returns duration_ms = 0 and the status
\* "No watering needed (soil is wet)".
C5_WetColdGivesNoWater ==
    \A i \in DOMAIN calls :
        calls[i].args = <<100, 0, 0>> =>
            /\ IsDecision(calls[i].result)
            /\ calls[i].result.duration_ms = 0
            /\ calls[i].result.status = "No watering needed (soil is wet)"

\* C5 amended: for (100, 0, 0) the rules wet -> no_water and cool ->
\* very_short both fire with strength 1, and the call returns a duration
\* within 1 ms of 15000, the centre of very_short, with the status "Very
\* short watering (cooling)".
C5_WetColdGivesVeryShort ==
    \A i \in DOMAIN calls :
        calls[i].args = <<100, 0, 0>> =>
            /\ rules(100, 0, 0).no_water = Deg
            /\ rules(100, 0, 0).very_short = Deg
            /\ IsDecision(calls[i].result)
            /\ calls[i].result.duration_ms \in 14999..15000
            /\ calls[i].result.status = "Very short watering (cooling)"

\* C5 witness: the call (100, 0, 0) has returned.
C5_WetColdCalled == calls /= << >> /\ calls[1].args = <<100, 0, 0>>

\* C6: at air = 50 and temperature = 20, for soil s1 <= s2 in [5,90] the
\* duration returned for s1 is not smaller than the one returned for s2.
C6_DrierNeverShorter ==
    Len(calls) = 2 /\ calls[1].args[1] <= calls[2].args[1] =>
        /\ IsDecision(calls[1].result)
        /\ IsDecision(calls[2].result)
        /\ calls[1].result.duration_ms >= calls[2].result.duration_ms

\* C7: the Decision built from duration_ms has duration_seconds =
\* duration_ms div 1000 and the status of its band, each band inclusive at
\* its upper bound.
C7_DecisionBands ==
    formatted /= NoDecision =>
        /\ formatted.duration_seconds * 1000 <= formatted.duration_ms
        /\ formatted.duration_ms < (formatted.duration_seconds + 1) * 1000
        /\ formatted.duration_ms = 0 <=>
               formatted.status = "No watering needed (soil is wet)"
        /\ formatted.duration_ms \in 1..15000 <=>
               formatted.status = "Very short watering (cooling)"
        /\ formatted.duration_ms \in 15001..40000 <=>
               formatted.status = "Short watering"
        /\ formatted.duration_ms \in 40001..70000 <=>
               formatted.status = "Medium watering"
        /\ formatted.duration_ms > 70000 <=>
               formatted.status = "Long watering (very dry soil)"

\* C7 witness: the Decision built at the upper bound of the first band.
C7_BuiltAtBound == formatted /= NoDecision /\ formatted.duration_ms = 15000

AutoOps == {"proses_data", "recommendation"}

\* C8: proses_data and the recommendation handler publish exactly
\* "ON,<duration_ms>" on the control topic when calculate_watering returned
\* a Decision with duration_ms > 0, and nothing otherwise.
C8_PublishIffPositiveDecision ==
    last.op \in AutoOps =>
        IF IsDecision(last.core) /\ last.core.duration_ms > 0
        THEN last.sent = << [topic |-> "esp32/watering_control",
                             payload |-> "ON," \o ToString(last.core.duration_ms)] >>
        ELSE last.sent = << >>

\* C8 witness: a handler run that got a Decision of duration 0.
C8_ZeroDecisionSeen ==
    /\ last.op \in AutoOps
    /\ IsDecision(last.core)
    /\ last.core.duration_ms = 0

\* C9: for (0, 100, 40) only the consequent long fires, at strength 1, and
\* the call returns duration_ms > 70000 with the status "Long watering (very
\* dry soil)".
C9_VeryDryGivesLong ==
    \A i \in DOMAIN calls :
        calls[i].args = <<0, 100, 40>> =>
            /\ rules(0, 100, 40) = [no_water |-> 0, very_short |-> 0, short |-> 0,
                                    medium |-> 0, long |-> Deg]
            /\ IsDecision(calls[i].result)
            /\ calls[i].result.duration_ms > 70000
            /\ calls[i].result.status = "Long watering (very dry soil)"

\* C9 witness: the call (0, 100, 40) has returned.
C9_VeryDryCalled == calls /= << >> /\ calls[1].args = <<0, 100, 40>>

\* C10: the reading a handler passes to calculate_watering is the row the
\* most recent accepted message stored, and a message that is not accepted
\* stores nothing.
C10_LatestReadingUsed ==
    /\ last.op \in AutoOps /\ last.seq > 0 => last.row = last.seq
    /\ last.op = "on_message" =>
           Len(db) = last.before + (IF Accepted(last.msg) THEN 1 ELSE 0)
=============================================================================
